---- MODULE Spec2Model ----
(***************************************************************************)
(* mem_macros: the macros align_of! and size_of! (src/src/lib.rs).  Each   *)
(* expands to a call of core::mem::align_of::<T>() / size_of::<T>().  The  *)
(* values of the two primitives are modelled as lib.rs documents them: the *)
(* primitive size table, the pointer rule, the array stride rule and the   *)
(* repr(C) struct and union rules, on a bounded universe of types.         *)
(***************************************************************************)
EXTENDS Integers, Sequences, FiniteSets, TLC

VARIABLES build, pc, mac, ty, call, result, seen,
          fields, idx, docSize, polSize, lpc

vars == <<build, pc, mac, ty, call, result, seen,
          fields, idx, docSize, polSize, lpc>>
queryVars == <<build, pc, mac, ty, call, result, seen>>
layoutVars == <<fields, idx, docSize, polSize, lpc>>

(* ------------------------------ bounds --------------------------------- *)
\* longest field list of a modelled struct or union
MaxFields == 3
\* longest modelled array
MaxLen == 3
\* longest field list and largest field size the layout walk is run on
MaxSeq == 3
MaxFieldSize == 2
\* evaluations counted after an observation has been remembered
MaxAge == 2

(* ------------------------------ helpers -------------------------------- *)
Max(a, b) == IF a >= b THEN a ELSE b
Min(a, b) == IF a <= b THEN a ELSE b
SeqsUpTo(S, n) == UNION {[1..k -> S] : k \in 0..n}
IsPowerOfTwo(n) == \E k \in 0..n : 2^k = n

\* "round up the current size to the nearest multiple of" an alignment
RoundUp(n, a) == ((n + a - 1) \div a) * a

(* ------------------------------- types --------------------------------- *)
Prim(n) == [kind |-> "prim", name |-> n]
Array(t, n) == [kind |-> "array", elem |-> t, len |-> n]
Pointer(f, t) == [kind |-> "pointer", former |-> f, target |-> t]
Struct(form, fs) == [kind |-> "struct", form |-> form, fields |-> fs]
Union(fs) == [kind |-> "union", fields |-> fs]
NoType == [kind |-> "none"]

\* the primitives of the size table, with usize and isize
PrimNames == {"()", "bool", "u8", "u16", "u32", "u64", "i8", "i16", "i32",
              "i64", "f32", "f64", "char", "usize", "isize"}
Prims == {Prim(n) : n \in PrimNames}

\* *const T, *mut T, &T, &mut T, Box<T>, Option<&T>, Option<Box<T>>
Formers == {"*const", "*mut", "&", "&mut", "Box", "Option<&>", "Option<Box>"}

\* the types of the doctests
FieldStruct == Struct("named", <<Prim("u8"), Prim("u16"), Prim("u8")>>)
TupleStruct == Struct("tuple", <<Prim("u8"), Prim("u16"), Prim("u8")>>)
FieldStructOptimized == Struct("named", <<Prim("u8"), Prim("u8"), Prim("u16")>>)
ExampleUnion == Union(<<Prim("u8"), Prim("u16")>>)

\* a union whose largest field is not a multiple of its alignment
OddUnion == Union(<<Array(Prim("u8"), 3), Prim("u16")>>)

\* the member types structs and unions are built from: every primitive width,
\* the pointer width, two zero-sized types (alignment 1 and 4) and an odd size
FieldSamples == {Prim("()"), Prim("u8"), Prim("u16"), Prim("u32"), Prim("u64"),
                 Prim("usize"), Array(Prim("u8"), 3), Array(Prim("u32"), 0)}
Structs == {Struct(f, fs) : f \in {"named", "tuple"},
                            fs \in SeqsUpTo(FieldSamples, MaxFields)}
\* a union has at least one field (rustc rejects a union without fields)
Unions == {Union(fs) : fs \in SeqsUpTo(FieldSamples, MaxFields) \ {<<>>}}

\* element types of arrays and targets of pointers; all of them are Sized
ElemTypes == Prims \cup FieldSamples \cup
             {FieldStruct, FieldStructOptimized, ExampleUnion, OddUnion,
              Struct("named", <<>>), Pointer("&", Prim("i32"))}
Arrays == {Array(t, n) : t \in ElemTypes, n \in 0..MaxLen}
Pointers == {Pointer(f, t) : f \in Formers, t \in ElemTypes}

Types == Prims \cup Arrays \cup Pointers \cup Structs \cup Unions

(* ------------------------------- builds -------------------------------- *)
\* "the size of a type is not stable across compilations": a build fixes the
\* pointer width and the largest alignment a primitive gets (u64 is 4-aligned
\* on some 32-bit targets); align_of!(i32) = 4 holds in each
Builds == {[ptr |-> 4, maxAlign |-> 4], [ptr |-> 4, maxAlign |-> 8],
           [ptr |-> 8, maxAlign |-> 8]}

(* ----------------------- the documented primitives --------------------- *)
\* a char taken for C's one-byte char
PrimSizeByteChar(b, n) ==
    CASE n = "()" -> 0
      [] n \in {"bool", "u8", "i8", "char"} -> 1
      [] n \in {"u16", "i16"} -> 2
      [] n \in {"u32", "i32", "f32"} -> 4
      [] n \in {"u64", "i64", "f64"} -> 8
      [] n \in {"usize", "isize"} -> b.ptr

\* the table "Type | size_of!(Type)"; usize and isize have the same size
PrimSize(b, n) ==
    CASE n = "()" -> 0
      [] n \in {"bool", "u8", "i8"} -> 1
      [] n \in {"u16", "i16"} -> 2
      [] n \in {"u32", "i32", "f32", "char"} -> 4
      [] n \in {"u64", "i64", "f64"} -> 8
      [] n \in {"usize", "isize"} -> b.ptr

\* natural alignment, capped by the build: u8 1, u16 2, i32 4
PrimAlign(b, n) == Min(Max(PrimSize(b, n), 1), b.maxAlign)

\* an Option that stores a discriminant word next to the pointer
PointerSizeTagged(b, former, target) ==
    IF former \in {"Option<&>", "Option<Box>"} THEN 2 * b.ptr ELSE b.ptr

\* pointers, references, boxes and their Options to a Sized T: size of usize
PointerSize(b, former, target) == PrimSize(b, "usize")

\* a field as the layout rules see it
Field(size, align) == [size |-> size, align |-> align]

\* the alignment of a struct or union: the largest alignment of its fields
RECURSIVE MaxAlign(_, _)
MaxAlign(fs, i) ==
    IF i > Len(fs) THEN 1 ELSE Max(fs[i].align, MaxAlign(fs, i + 1))
\* the alignments added up instead of the largest one taken
RECURSIVE SumAlign(_, _)
SumAlign(fs, i) ==
    IF i > Len(fs) THEN 0 ELSE fs[i].align + SumAlign(fs, i + 1)
StructAlignSum(fs) == Max(SumAlign(fs, 1), 1)
StructAlign(fs) == MaxAlign(fs, 1)

\* step 2 read as rounding up to the field's own alignment
DocAddFieldOwnAlign(fs, i, size) == RoundUp(size + fs[i].size, fs[i].align)

\* one field of "Size of Structs": 1. add the size of the field, 2. round up
\* to the next field's alignment (the last field has no next field)
DocAddField(fs, i, size) ==
    IF i < Len(fs) THEN RoundUp(size + fs[i].size, fs[i + 1].align)
    ELSE size + fs[i].size

RECURSIVE DocWalk(_, _, _)
DocWalk(fs, i, size) ==
    IF i > Len(fs) THEN size ELSE DocWalk(fs, i + 1, DocAddField(fs, i, size))

\* the final rounding left out
DocFinishUnrounded(fs, size) == size

\* "finally, round the size of the struct to the nearest multiple of its
\* alignment"; an empty struct is not rounded up to one byte
DocFinish(fs, size) == RoundUp(size, StructAlign(fs))
StructSize(fs) == DocFinish(fs, DocWalk(fs, 1, 0))

\* the first field taken for the largest
FirstField(fs, i) == IF i > Len(fs) THEN 0 ELSE fs[i].size

\* "the size of a union is the size of its largest field"
RECURSIVE LargestField(_, _)
LargestField(fs, i) ==
    IF i > Len(fs) THEN 0 ELSE Max(fs[i].size, LargestField(fs, i + 1))

\* the largest field without the padding to the union's alignment
UnionSizeUnpadded(fs) == LargestField(fs, 1)

\* size_of is "the offset in bytes between successive elements in an array
\* ... including alignment padding": the largest field, padded to the
\* union's alignment
UnionSize(fs) == RoundUp(LargestField(fs, 1), StructAlign(fs))

\* an empty array given the room of one element
ArraySizeNonEmpty(elem, n) == DocFinish([i \in 1..Max(n, 1) |-> elem],
                                DocWalk([i \in 1..Max(n, 1) |-> elem], 1, 0))

\* [T; n]: n elements one after the other, each at an offset aligned for T
ArraySize(elem, n) == StructSize([i \in 1..n |-> elem])

RECURSIVE core_mem_size_of(_, _), core_mem_align_of(_, _)
Layout(b, t) == Field(core_mem_size_of(b, t), core_mem_align_of(b, t))
Layouts(b, ts) == [i \in 1..Len(ts) |-> Layout(b, ts[i])]

core_mem_size_of(b, t) ==
    CASE t.kind = "prim" -> PrimSize(b, t.name)
      [] t.kind = "pointer" -> PointerSize(b, t.former, t.target)
      [] t.kind = "array" -> ArraySize(Layout(b, t.elem), t.len)
      [] t.kind = "struct" -> StructSize(Layouts(b, t.fields))
      [] t.kind = "union" -> UnionSize(Layouts(b, t.fields))

core_mem_align_of(b, t) ==
    CASE t.kind = "prim" -> PrimAlign(b, t.name)
      [] t.kind = "pointer" -> PrimAlign(b, "usize")
      [] t.kind = "array" -> core_mem_align_of(b, t.elem)
      [] t.kind = "struct" -> StructAlign(Layouts(b, t.fields))
      [] t.kind = "union" -> StructAlign(Layouts(b, t.fields))

(* ------------------------------ the macros ----------------------------- *)
AlignOfPath == <<"core", "mem", "align_of">>
SizeOfPath == <<"core", "mem", "size_of">>
NoCall == [path |-> <<>>, targ |-> NoType]

\* align_of! written with size_of!'s expansion
align_of_as_size_of(t) == [path |-> SizeOfPath, targ |-> t]

\* macro_rules! align_of: ($t:ty) => $crate::__core::mem::align_of::<$t>()
align_of(t) == [path |-> AlignOfPath, targ |-> t]

\* macro_rules! size_of: ($t:ty) => $crate::__core::mem::size_of::<$t>()
size_of(t) == [path |-> SizeOfPath, targ |-> t]

\* the expansion's path resolved through `pub extern crate core as __core`
Resolve(b, c) ==
    IF c.path = AlignOfPath THEN core_mem_align_of(b, c.targ)
    ELSE core_mem_size_of(b, c.targ)

(* ---------------------------- the query machine ------------------------ *)
NoObs == [mac |-> "none", ty |-> NoType, result |-> 0, age |-> 0]

\* one more evaluation has happened since the observation was remembered
Aged(obs) ==
    IF obs.mac = "none" THEN obs
    ELSE [obs EXCEPT !.age = Min(@ + 1, MaxAge)]

QueryIdle ==
    /\ pc = "idle" /\ mac = "none" /\ ty = NoType /\ call = NoCall
    /\ result = 0 /\ seen = NoObs

LayoutOff ==
    /\ fields = <<>> /\ idx = 0 /\ docSize = 0 /\ polSize = 0 /\ lpc = "off"

Init == build \in Builds /\ QueryIdle /\ LayoutOff

\* align_of!(t) is written, t one of the types T: the macro is expanded
InvokeAlignOf(T) ==
    /\ pc = "idle"
    /\ \E t \in T :
          /\ mac' = "align_of" /\ ty' = t /\ call' = align_of(t)
    /\ pc' = "expanded"
    /\ UNCHANGED <<build, result, seen, layoutVars>>

\* size_of!(t) is written, t one of the types T: the macro is expanded
InvokeSizeOf(T) ==
    /\ pc = "idle"
    /\ \E t \in T :
          /\ mac' = "size_of" /\ ty' = t /\ call' = size_of(t)
    /\ pc' = "expanded"
    /\ UNCHANGED <<build, result, seen, layoutVars>>

\* an evaluation that also changes what later evaluations read
EvaluateStateful ==
    /\ pc = "expanded"
    /\ result' = Resolve(build, call)
    /\ pc' = "done"
    /\ seen' = Aged(seen)
    /\ build' = [build EXCEPT !.ptr = 12 - @]
    /\ UNCHANGED <<mac, ty, call, layoutVars>>

\* the expansion is evaluated: a call without arguments, reading the build
Evaluate ==
    /\ pc = "expanded"
    /\ result' = Resolve(build, call)
    /\ pc' = "done"
    /\ seen' = Aged(seen)
    /\ UNCHANGED <<build, mac, ty, call, layoutVars>>

\* the value has been used; the next invocation may follow
Continue ==
    /\ pc = "done"
    /\ pc' = "idle" /\ mac' = "none" /\ ty' = NoType /\ call' = NoCall
    /\ result' = 0
    /\ UNCHANGED <<build, seen, layoutVars>>

Next ==
    \/ InvokeAlignOf(Types)
    \/ InvokeSizeOf(Types)
    \/ Evaluate
    \/ Continue

Spec == Init /\ [][Next]_vars

(* ------------------- repeated and interleaved invocations -------------- *)
\* the types of the doctests and the primitives
RepeatTypes == Prims \cup
    {FieldStruct, TupleStruct, FieldStructOptimized, ExampleUnion, OddUnion}
    \cup {Array(Prim("i32"), n) : n \in 0..MaxLen}
    \cup {Pointer(f, Prim("i32")) : f \in Formers}

\* the value of an invocation is kept, to be compared with later ones
Remember ==
    /\ pc = "done"
    /\ seen' = [mac |-> mac, ty |-> ty, result |-> result, age |-> 0]
    /\ UNCHANGED <<build, pc, mac, ty, call, result, layoutVars>>

NextRepeat ==
    \/ InvokeAlignOf(RepeatTypes)
    \/ InvokeSizeOf(RepeatTypes)
    \/ Evaluate
    \/ Continue
    \/ Remember

SpecRepeat == Init /\ [][NextRepeat]_vars

(* ------------------------- the spec's layout policy -------------------- *)
\* "for each field, round the running size up to the field's alignment, then
\* add the field's size"
PolicyAddField(fs, i, size) == RoundUp(size, fs[i].align) + fs[i].size

RECURSIVE PolicyWalk(_, _, _)
PolicyWalk(fs, i, size) ==
    IF i > Len(fs) THEN size
    ELSE PolicyWalk(fs, i + 1, PolicyAddField(fs, i, size))

\* "after all fields, round the total up to the overall type's alignment"
PolicySize(fs, align) == RoundUp(PolicyWalk(fs, 1, 0), align)

(* ------------------------------- claims -------------------------------- *)
Done == pc = "done"
SizeDone == pc = "done" /\ mac = "size_of"
AlignDone == pc = "done" /\ mac = "align_of"

\* the sizes of the members of a struct or union type, in the current build
MemberSizes(t) ==
    {core_mem_size_of(build, t.fields[i]) : i \in 1..Len(t.fields)}
LargestMember(t) ==
    IF MemberSizes(t) = {} THEN 0
    ELSE CHOOSE m \in MemberSizes(t) : \A s \in MemberSizes(t) : s <= m

\* a type that occupies no storage, by its structure
RECURSIVE IsZeroSized(_)
IsZeroSized(t) ==
    CASE t.kind = "prim" -> t.name = "()"
      [] t.kind = "pointer" -> FALSE
      [] t.kind = "array" -> t.len = 0 \/ IsZeroSized(t.elem)
      [] t.kind = "struct" ->
            \A i \in 1..Len(t.fields) : IsZeroSized(t.fields[i])
      [] t.kind = "union" ->
            \A i \in 1..Len(t.fields) : IsZeroSized(t.fields[i])

\* C1: align_of!(T) yields the value of core::mem::align_of::<T>() and
\* size_of!(T) the value of core::mem::size_of::<T>(), for the type written
\* in the invocation and in the build it is evaluated in.
C1_MacroForwards ==
    /\ pc \in {"expanded", "done"} => call.targ = ty
    /\ Done =>
        result = IF mac = "align_of" THEN core_mem_align_of(build, ty)
                 ELSE core_mem_size_of(build, ty)
C1_Witness == AlignDone /\ ty = FieldStruct /\ result = 2

\* C2: the size of [T; N] is N * size_of(T), for every element type and every
\* length from 0 on.
C2_ArraySize ==
    SizeDone /\ ty.kind = "array" =>
        result = ty.len * core_mem_size_of(build, ty.elem)
C2_Witness == SizeDone /\ ty = Array(Prim("i32"), 3) /\ result = 12

\* C3: the size of a repr(C) struct is the result of the layout policy (round
\* up to the field's alignment, add its size, finally round up to the
\* struct's alignment); fields (u8, u16, u8) give size 6 and alignment 2 as a
\* named-field and as a tuple struct, and (u8, u8, u16) gives size 4.
C3_StructLayout ==
    Done /\ ty.kind = "struct" =>
        /\ mac = "size_of" =>
            result = PolicySize(Layouts(build, ty.fields),
                                core_mem_align_of(build, ty))
        /\ ty.fields = <<Prim("u8"), Prim("u16"), Prim("u8")>> =>
            result = IF mac = "size_of" THEN 6 ELSE 2
        /\ mac = "size_of" /\ ty.fields = <<Prim("u8"), Prim("u8"), Prim("u16")>>
            => result = 4
C3_Witness == SizeDone /\ ty = TupleStruct /\ result = 6

C6_AlignPowerOfTwo ==
    AlignDone =>
        /\ result >= 1 /\ IsPowerOfTwo(result)
        /\ ty = Prim("i32") => result = 4
C6_Witness == AlignDone /\ IsZeroSized(ty) /\ ty.kind = "struct" /\ result = 4

\* C7: for a Sized T, *const T, *mut T, &T, &mut T, Box<T>, Option<&T> and
\* Option<Box<T>> all have the size of usize.
C7_PointerSizes ==
    SizeDone /\ ty.kind = "pointer" =>
        /\ result = core_mem_size_of(build, Prim("usize"))
        /\ \A f \in Formers :
              core_mem_size_of(build, Pointer(f, ty.target)) = result
C7_Witness ==
    /\ SizeDone /\ ty = Pointer("Option<Box>", Prim("i32"))
    /\ result = build.ptr

\* C8: the size of a primitive is its width in the table: () 0; bool, u8, i8
\* 1; u16, i16 2; u32, i32, f32, char 4; u64, i64, f64 8; and usize and isize
\* have the same size.
C8_PrimitiveTable ==
    SizeDone /\ ty.kind = "prim" =>
        CASE ty.name = "()" -> result = 0
          [] ty.name \in {"bool", "u8", "i8"} -> result = 1
          [] ty.name \in {"u16", "i16"} -> result = 2
          [] ty.name \in {"u32", "i32", "f32", "char"} -> result = 4
          [] ty.name \in {"u64", "i64", "f64"} -> result = 8
          [] ty.name \in {"usize", "isize"} ->
                /\ result = core_mem_size_of(build, Prim("usize"))
                /\ result = core_mem_size_of(build, Prim("isize"))
C8_Witness == SizeDone /\ ty = Prim("char") /\ result = 4

\* C9: an invocation of either macro yields the same value as an earlier
\* invocation on the same type in the same build, whatever was invoked in
\* between, and no invocation changes the build or an earlier observation.
C9_Deterministic ==
    [][/\ build' = build
       /\ pc \in {"idle", "expanded"} => seen'.result = seen.result
       /\ pc' = "done" /\ seen'.mac = mac' /\ seen'.ty = ty' =>
            result' = seen'.result]_vars
C9_Witness ==
    /\ Done /\ seen.mac = mac /\ seen.ty = ty /\ seen.age >= 2
    /\ ty = Prim("usize") /\ result = build.ptr

(* --------------------------- the layout walk --------------------------- *)
\* fields by size and alignment: every size up to the bound, zero included
LayoutAligns == {1, 2, 4}
FieldLayouts == {Field(s, a) : s \in 0..MaxFieldSize, a \in LayoutAligns}

InitLayout ==
    /\ build = [ptr |-> 8, maxAlign |-> 8] /\ QueryIdle
    /\ fields \in SeqsUpTo(FieldLayouts, MaxSeq)
    /\ idx = 1 /\ docSize = 0 /\ polSize = 0 /\ lpc = "fields"

\* the next field in declaration order, by the documentation and by the policy
AddField ==
    /\ lpc = "fields" /\ idx <= Len(fields)
    /\ docSize' = DocAddField(fields, idx, docSize)
    /\ polSize' = PolicyAddField(fields, idx, polSize)
    /\ idx' = idx + 1
    /\ UNCHANGED <<fields, lpc, queryVars>>

\* after the last field: round up to the struct's alignment
Finish ==
    /\ lpc = "fields" /\ idx > Len(fields)
    /\ docSize' = DocFinish(fields, docSize)
    /\ polSize' = RoundUp(polSize, StructAlign(fields))
    /\ lpc' = "done"
    /\ UNCHANGED <<fields, idx, queryVars>>

NextLayout == AddField \/ Finish

SpecLayout == InitLayout /\ [][NextLayout]_vars

\* C10: the algorithm of the documentation (add the field's size, round up to
\* the next field's alignment, finally round up to the struct's alignment)
\* and the layout policy (round up to the field's alignment, add its size,
\* finally round up) give the same size for every field sequence, the empty
\* one and those with zero-sized fields included.
C10_DocMatchesPolicy ==
    lpc = "done" =>
        /\ docSize = polSize
        /\ StructSize(fields) = PolicySize(fields, StructAlign(fields))
        /\ docSize = StructSize(fields)
C10_Witness ==
    /\ lpc = "done"
    /\ fields = <<Field(1, 1), Field(0, 4), Field(2, 2)>>
    /\ docSize = 8

====
